---- MODULE Spec2Model ----
(***************************************************************************)
(* Model of the anomaly-classification engine of StingRayCatcher           *)
(* (src/main.py): the CellSite record, normalize_operator and the three    *)
(* passes of classify_sites, driven by a loader that appends freshly       *)
(* parsed sites to a batch and a caller that classifies the batch one or   *)
(* more times.                                                             *)
(*                                                                         *)
(* Representation.                                                         *)
(*   Optional[T]   None is <<>>, a present value x is <<x>>.               *)
(*   str           a sequence of one-character strings, so that            *)
(*                 str.lower() is computed character by character.         *)
(*   float         signal levels are whole dBm; coordinates are whole      *)
(*                 thousandths of a degree.                                *)
(*   reason        a sequence of the pieces of the formatted message.      *)
(***************************************************************************)
EXTENDS Integers, Sequences, FiniteSets, TLC

VARIABLES
    sites,   \* the batch handed to classify_sites (a list of CellSite)
    input,   \* the batch exactly as the loader built it (history variable)
    passes,  \* how many classify_sites passes have run over the batch
    twin,    \* a second batch: the loaded one with one record changed
    flip,    \* None, or what was changed to make the twin and whether
             \* classify_sites has run over the twin
    calls,        \* the refresh_data invocations, finished or in flight:
                  \* each its position, its local new_sites list and the
                  \* batch as it was loaded (history)
    ALL_SITES,    \* 0 for the initial empty list, else the invocation
                  \* whose new_sites list the global refers to
    LAST_REFRESH, \* None, or the stamp of the invocation that set it
    IPHONE_INFO,  \* the result of the latest device probe
    reader,       \* the /data handler in flight
    response      \* None, or the latest /data response

\* The batch a command-line run loads and classifies.
engineVars == <<sites, input, passes>>

\* The second batch of a two-batch comparison.
flipVars == <<twin, flip>>

\* The web UI state.
webVars == <<calls, ALL_SITES, LAST_REFRESH, IPHONE_INFO, reader, response>>

vars == <<engineVars, flipVars, webVars>>

----------------------------------------------------------------------------
\* Bounds of the model.

MaxBatch == 5
MaxPasses == 2
MaxRefresh == 3

----------------------------------------------------------------------------
\* Python values.

None == <<>>
Some(x) == <<x>>
IsNone(o) == o = <<>>
Get(o) == o[1]

\* `not x` for an Optional[str] or an Optional[list]: None and the empty
\* string / list are both falsy.
Falsy(o) == IsNone(o) \/ Get(o) = <<>>

\* `x or d` for an Optional[float]: None and 0.0 are both falsy.
FloatOr(o, d) == IF IsNone(o) \/ Get(o) = 0 THEN d ELSE Get(o)

\* `x in xs`
Contains(xs, x) == \E i \in 1..Len(xs) : xs[i] = x

\* PyInt that rounds down, as math.floor or // would.
PyIntFloor(num, den) == num \div den

\* int(num / den): Python's int() truncates toward zero.
PyInt(num, den) ==
    IF num >= 0 THEN num \div den ELSE -((-num) \div den)

UpperChars == <<"A","B","C","D","E","F","G","H","I","J","K","L","M",
                "N","O","P","Q","R","S","T","U","V","W","X","Y","Z">>
LowerChars == <<"a","b","c","d","e","f","g","h","i","j","k","l","m",
                "n","o","p","q","r","s","t","u","v","w","x","y","z">>

LowerChar(c) ==
    IF \E i \in 1..Len(UpperChars) : UpperChars[i] = c
    THEN LowerChars[CHOOSE i \in 1..Len(UpperChars) : UpperChars[i] = c]
    ELSE c

\* str.lower()
Lower(s) == [i \in 1..Len(s) |-> LowerChar(s[i])]

----------------------------------------------------------------------------
\* Registry and thresholds.

ATT == <<"A","T","&","T">>
TMobile == <<"T","-","M","o","b","i","l","e">>
Verizon == <<"V","e","r","i","z","o","n">>
USCellular == <<"U","S"," ","C","e","l","l","u","l","a","r">>

US_OPERATOR_BY_MCC_MNC ==
    (<<310, 410>> :> ATT) @@ (<<310, 150>> :> ATT) @@
    (<<310, 260>> :> TMobile) @@ (<<310, 160>> :> TMobile) @@
    (<<311, 480>> :> Verizon) @@ (<<311, 490>> :> Verizon) @@
    (<<311, 870>> :> USCellular)

\* dict.get(key): None on a miss.
RegistryGet(mcc, mnc) ==
    IF <<mcc, mnc>> \in DOMAIN US_OPERATOR_BY_MCC_MNC
    THEN Some(US_OPERATOR_BY_MCC_MNC[<<mcc, mnc>>])
    ELSE None

RsrpStrong == -65
RssiStrong == -50
LowCode == 1
GridScale == 200
DenseMin == 4
DenseTop == 2
AbsentRsrp == -200

ReasonMissing == <<"Missing operator and MCC/MNC">>
ReasonMismatch(mcc, mnc, mapped) ==
    <<"MCC/MNC (", mcc, "-", mnc, ") mismatch: expected ", mapped>>
ReasonStrong == <<"Unusually strong signal strength">>
ReasonLow == <<"Low TAC/LAC/CID values">>
ReasonDense == <<"Dense cluster with strong power">>

----------------------------------------------------------------------------
\* The record.

\* CellSite(...) as _parse_row and demo_sites construct it: the fields the
\* engine never reads are left absent, suspected_simulator is False.
CellSite(lat, lon, operator, mcc, mnc, lac, tac, cid, rsrp, rssi, reasons) ==
    [lat |-> lat, lon |-> lon, operator |-> operator, mcc |-> mcc,
     mnc |-> mnc, lac |-> lac, tac |-> tac, cid |-> cid, pci |-> None,
     arfcn |-> None, band |-> None, rsrp |-> rsrp, rsrq |-> None,
     rssi |-> rssi, timestamp |-> None,
     suspected_simulator |-> FALSE, reasons |-> reasons]

----------------------------------------------------------------------------
\* normalize_operator

normalize_operator(site) ==
    IF Falsy(site.operator) /\ ~IsNone(site.mcc) /\ ~IsNone(site.mnc)
    THEN [site EXCEPT !.operator = RegistryGet(Get(site.mcc), Get(site.mnc))]
    ELSE site

----------------------------------------------------------------------------
\* classify_sites

\* s.suspected_simulator = True; s.reasons.append(reason)
Flag(s, reason) ==
    [s EXCEPT !.suspected_simulator = TRUE,
              !.reasons = Some(Append(Get(s.reasons), reason))]

\* First loop: normalize_operator(s); s.reasons = s.reasons or []
Prepare(s) ==
    LET n == normalize_operator(s)
    IN [n EXCEPT !.reasons =
            Some(IF Falsy(n.reasons) THEN <<>> ELSE Get(n.reasons))]

\* MissingIdentity that fires only when MCC and MNC are both absent.
MissingIdentityBoth(s) ==
    IF Falsy(s.operator) /\ (IsNone(s.mcc) /\ IsNone(s.mnc))
    THEN Flag(s, ReasonMissing)
    ELSE s

\* Heuristic: missing operator and MCC/MNC unknown
MissingIdentity(s) ==
    IF Falsy(s.operator) /\ (IsNone(s.mcc) \/ IsNone(s.mnc))
    THEN Flag(s, ReasonMissing)
    ELSE s

\* OperatorMismatch that compares the names without .lower().
OperatorMismatchCaseSensitive(s) ==
    IF ~IsNone(s.mcc) /\ ~IsNone(s.mnc)
    THEN LET mapped == RegistryGet(Get(s.mcc), Get(s.mnc))
         IN IF /\ ~Falsy(mapped)
               /\ ~Falsy(s.operator)
               /\ Get(mapped) # Get(s.operator)
            THEN Flag(s, ReasonMismatch(Get(s.mcc), Get(s.mnc), Get(mapped)))
            ELSE s
    ELSE s

\* Heuristic: operator mismatch vs MCC/MNC map
OperatorMismatch(s) ==
    IF ~IsNone(s.mcc) /\ ~IsNone(s.mnc)
    THEN LET mapped == RegistryGet(Get(s.mcc), Get(s.mnc))
         IN IF /\ ~Falsy(mapped)
               /\ ~Falsy(s.operator)
               /\ Lower(Get(mapped)) # Lower(Get(s.operator))
            THEN Flag(s, ReasonMismatch(Get(s.mcc), Get(s.mnc), Get(mapped)))
            ELSE s
    ELSE s

\* IsStrong with >= where the code has >.
IsStrongInclusive(s) ==
    \/ ~IsNone(s.rsrp) /\ Get(s.rsrp) >= RsrpStrong
    \/ ~IsNone(s.rssi) /\ Get(s.rssi) >= RssiStrong

\* Heuristic: abnormally strong signal
IsStrong(s) ==
    \/ ~IsNone(s.rsrp) /\ Get(s.rsrp) > RsrpStrong
    \/ ~IsNone(s.rssi) /\ Get(s.rssi) > RssiStrong

StrongSignal(s) ==
    IF IsStrong(s) /\ ~Contains(Get(s.reasons), ReasonStrong)
    THEN Flag(s, ReasonStrong)
    ELSE s

\* IsLow with < where the code has <=.
IsLowStrict(s) ==
    \/ ~IsNone(s.tac) /\ Get(s.tac) < LowCode
    \/ ~IsNone(s.lac) /\ Get(s.lac) < LowCode
    \/ ~IsNone(s.cid) /\ Get(s.cid) < LowCode

\* Heuristic: low codes
IsLow(s) ==
    \/ ~IsNone(s.tac) /\ Get(s.tac) <= LowCode
    \/ ~IsNone(s.lac) /\ Get(s.lac) <= LowCode
    \/ ~IsNone(s.cid) /\ Get(s.cid) <= LowCode

\* LowCodes that assigns `s.reasons = [reason]` instead of appending.
LowCodesReplace(s) ==
    IF IsLow(s) /\ ~Contains(Get(s.reasons), ReasonLow)
    THEN [s EXCEPT !.suspected_simulator = TRUE,
                   !.reasons = Some(<<ReasonLow>>)]
    ELSE s

\* LowCodes without `s.suspected_simulator = True`.
LowCodesNoFlag(s) ==
    IF IsLow(s) /\ ~Contains(Get(s.reasons), ReasonLow)
    THEN [s EXCEPT !.reasons = Some(Append(Get(s.reasons), ReasonLow))]
    ELSE s

LowCodes(s) ==
    IF IsLow(s) /\ ~Contains(Get(s.reasons), ReasonLow)
    THEN Flag(s, ReasonLow)
    ELSE s

\* Heuristics with the strong-signal check moved to the front.
HeuristicsReordered(s) ==
    LowCodes(OperatorMismatch(MissingIdentity(StrongSignal(s))))

\* Second loop: the four per-record heuristics, in the order of the code.
Heuristics(s) == LowCodes(StrongSignal(OperatorMismatch(MissingIdentity(s))))

\* key = (int(s.lat * 200), int(s.lon * 200)); coordinates are thousandths.
BucketKey(s) ==
    <<PyInt(s.lat * GridScale, 1000), PyInt(s.lon * GridScale, 1000)>>

\* grid.setdefault(key, []).append(idx): the indices of a key, ascending.
Grid(ss) ==
    [k \in {BucketKey(ss[i]) : i \in 1..Len(ss)} |->
        SelectSeq([i \in 1..Len(ss) |-> i], LAMBDA i : BucketKey(ss[i]) = k)]

\* key=lambda x: (x.rsrp or -200)
SortKey(s) == FloatOr(s.rsrp, AbsentRsrp)

\* InsertDesc that puts x before the elements of equal key, as sorting
\* ascending and reversing the list would.
InsertDescTiesReversed(sorted, x, ss) ==
    LET p == Cardinality({j \in 1..Len(sorted) :
                            SortKey(ss[sorted[j]]) > SortKey(ss[x])})
    IN SubSeq(sorted, 1, p) \o <<x>> \o SubSeq(sorted, p + 1, Len(sorted))

\* One step of the stable descending sort: x goes after every element whose
\* key is greater than or equal to its own.
InsertDesc(sorted, x, ss) ==
    LET p == Cardinality({j \in 1..Len(sorted) :
                            SortKey(ss[sorted[j]]) >= SortKey(ss[x])})
    IN SubSeq(sorted, 1, p) \o <<x>> \o SubSeq(sorted, p + 1, Len(sorted))

RECURSIVE SortDesc(_, _)
\* local.sort(key=..., reverse=True) over the indices of one bucket.
SortDesc(indices, ss) ==
    IF indices = <<>>
    THEN <<>>
    ELSE InsertDesc(SortDesc(SubSeq(indices, 1, Len(indices) - 1), ss),
                    indices[Len(indices)], ss)

\* TopOfBucket with the slice one too long: local[:3].
TopOfBucketThree(indices, ss) ==
    LET local == SortDesc(indices, ss)
        n == IF Len(local) < DenseTop + 1 THEN Len(local) ELSE DenseTop + 1
    IN {local[j] : j \in 1..n}

\* local[:2] of one bucket, as a set of indices into the batch.
TopOfBucket(indices, ss) ==
    LET local == SortDesc(indices, ss)
        n == IF Len(local) < DenseTop THEN Len(local) ELSE DenseTop
    IN {local[j] : j \in 1..n}

\* The indices the density loop reaches: local[:2] of every bucket that
\* holds at least 4 indices.
DenseTargets(ss) ==
    LET grid == Grid(ss)
    IN UNION {IF Len(grid[k]) >= DenseMin THEN TopOfBucket(grid[k], ss) ELSE {}
              : k \in DOMAIN grid}

\* Third loop body.
DenseCluster(s) ==
    IF ~Contains(Get(s.reasons), ReasonDense)
    THEN Flag(s, ReasonDense)
    ELSE s

classify_sites(ss) ==
    LET prepared == [i \in 1..Len(ss) |-> Prepare(ss[i])]
        checked == [i \in 1..Len(ss) |-> Heuristics(prepared[i])]
        targets == DenseTargets(checked)
    IN [i \in 1..Len(ss) |->
            IF i \in targets THEN DenseCluster(checked[i]) ELSE checked[i]]

----------------------------------------------------------------------------
\* Inputs: the default-state records a loader can hand to the engine.

Att == <<"a","t","&","t">>

\* Records with a clean identity that differ in RSRP only (of these values
\* only 0 is a strong signal); five share one grid cell, the sixth lies in
\* another.
DensitySites ==
    {CellSite(40758, -73986, Some(ATT), Some(310), Some(410), None,
              Some(100), Some(100), rsrp, None, Some(<<>>))
        : rsrp \in {None, Some(0), Some(-250), Some(-70), Some(-80)}}
    \cup
    {CellSite(40770, -73986, Some(ATT), Some(310), Some(410), None,
              Some(100), Some(100), Some(-70), None, Some(<<>>))}

IdentityInputs ==
    {None, Some(<<>>), Some(ATT), Some(Att), Some(Verizon)}
    \X {<<None, None>>, <<Some(310), None>>, <<None, Some(410)>>,
        <<Some(310), Some(410)>>, <<Some(310), Some(999)>>}

\* <<rsrp, rssi>>
SignalInputs ==
    {<<None, None>>, <<Some(-65), None>>, <<Some(-64), None>>,
     <<None, Some(-50)>>, <<None, Some(-49)>>, <<Some(-65), Some(-50)>>,
     <<Some(-40), None>>, <<Some(-80), None>>}

\* <<tac, lac, cid>>
CodeInputs ==
    {<<None, None, None>>, <<Some(0), None, None>>, <<Some(1), None, None>>,
     <<Some(2), None, None>>, <<None, Some(1), None>>, <<None, Some(2), None>>,
     <<None, None, Some(1)>>, <<None, None, Some(2)>>, <<Some(2), Some(2), Some(2)>>}

\* Every combination of identity, signal and code fields, with the reasons
\* field either left at the dataclass default (None) or set to [].
RecordSites ==
    {CellSite(40758, -73986, id[1], id[2][1], id[2][2], code[2], code[1],
              code[3], sig[1], sig[2], reasons)
        : id \in IdentityInputs, sig \in SignalInputs, code \in CodeInputs,
          reasons \in {None, Some(<<>>)}}

\* A clean neighbour in the same grid cell.
FillerSites ==
    {CellSite(40758, -73986, Some(ATT), Some(310), Some(410), None,
              Some(100), Some(100), Some(-80), None, Some(<<>>))}

----------------------------------------------------------------------------
\* Operations.

Init ==
    /\ sites = <<>>
    /\ input = <<>>
    /\ passes = 0
    /\ twin = <<>>
    /\ flip = None
    /\ calls = <<>>
    /\ ALL_SITES = 0
    /\ LAST_REFRESH = None
    /\ IPHONE_INFO = <<>>
    /\ reader = [pc |-> "idle", ref |-> 0, sites |-> <<>>]
    /\ response = None

\* The loader appends one freshly parsed site, drawn from S, to the batch.
AppendSite(S) ==
    /\ passes = 0
    /\ Len(sites) < MaxBatch
    /\ \E s \in S :
        /\ sites' = Append(sites, s)
        /\ input' = Append(input, s)
    /\ UNCHANGED <<passes, flipVars, webVars>>

\* The caller runs classify_sites over a non-empty batch.
ClassifySites ==
    /\ sites # <<>>
    /\ passes < MaxPasses
    /\ sites' = classify_sites(sites)
    /\ passes' = passes + 1
    /\ UNCHANGED <<input, flipVars, webVars>>

Next ==
    \/ AppendSite(DensitySites)
    \/ ClassifySites

Spec == Init /\ [][Next]_vars

\* Batches with at most one record of RecordSites among clean neighbours.
OnlyFillers == \A i \in 1..Len(sites) : sites[i] \in FillerSites

AppendRecord == OnlyFillers /\ AppendSite(RecordSites)

AppendFiller == AppendSite(FillerSites)

NextRecord ==
    \/ AppendRecord
    \/ AppendFiller
    \/ ClassifySites

SpecRecord == Init /\ [][NextRecord]_vars

\* A caller runs normalize_operator on one record of a loaded batch.
NormalizeOperator ==
    /\ passes = 0
    /\ \E i \in 1..Len(sites) :
        sites' = [sites EXCEPT ![i] = normalize_operator(sites[i])]
    /\ UNCHANGED <<input, passes, flipVars, webVars>>

NextNormalize ==
    \/ AppendRecord
    \/ AppendFiller
    \/ NormalizeOperator

SpecNormalize == Init /\ [][NextNormalize]_vars

\* Records around the equator and the prime meridian, <<lat, lon, rsrp>>:
\* the first three fall in grid cell (0, 0), the others in (-1, 0), (1, 0)
\* and (0, 1).
GridSites ==
    {CellSite(p[1], p[2], Some(ATT), Some(310), Some(410), None,
              Some(100), Some(100), Some(p[3]), None, Some(<<>>))
        : p \in {<<4, 3, -70>>, <<-4, -3, -80>>, <<-4, 3, -70>>,
                 <<-6, -3, -70>>, <<6, 3, -80>>, <<4, 7, -70>>}}

\* The conditions of the four per-record heuristics as the second loop of
\* classify_sites evaluates them, on the record normalize_operator left.
MissingCond(s) ==
    LET n == normalize_operator(s)
    IN Falsy(n.operator) /\ (IsNone(n.mcc) \/ IsNone(n.mnc))

MismatchCond(s) ==
    LET n == normalize_operator(s)
    IN /\ ~IsNone(n.mcc)
       /\ ~IsNone(n.mnc)
       /\ LET mapped == RegistryGet(Get(n.mcc), Get(n.mnc))
          IN /\ ~Falsy(mapped)
             /\ ~Falsy(n.operator)
             /\ Lower(Get(mapped)) # Lower(Get(n.operator))

Conds(s) ==
    [missing |-> MissingCond(s), mismatch |-> MismatchCond(s),
     strong |-> IsStrong(s), low |-> IsLow(s)]

Kinds == {"missing", "mismatch", "strong", "low"}

\* Base records of the two-batch comparison, all in one grid cell: two with
\* a clean identity and a third whose operator contradicts the registry.
FlipSites ==
    {CellSite(40758, -73986, Some(ATT), Some(310), Some(410), None,
              Some(100), Some(100), Some(-70), None, Some(<<>>)),
     CellSite(40758, -73986, Some(ATT), Some(310), Some(410), None,
              Some(100), Some(100), Some(-80), None, Some(<<>>)),
     CellSite(40758, -73986, Some(Verizon), Some(310), Some(410), None,
              Some(100), Some(100), None, None, Some(<<>>))}

\* The records that differ from s in the fields one heuristic reads.
Rewrites(s, kind) ==
    CASE kind \in {"missing", "mismatch"} ->
            {[s EXCEPT !.operator = op, !.mcc = id[1], !.mnc = id[2]]
                : op \in {None, Some(ATT), Some(Verizon)},
                  id \in {<<None, None>>, <<Some(310), Some(410)>>}}
      [] kind = "strong" ->
            {[s EXCEPT !.rsrp = rsrp]
                : rsrp \in {None, Some(-80), Some(-70), Some(-60), Some(-40)}}
            \cup {[s EXCEPT !.rssi = rssi] : rssi \in {None, Some(-40)}}
      [] kind = "low" ->
            {[s EXCEPT !.tac = tac] : tac \in {Some(100), Some(0)}}

\* The rewrites of s that turn the condition of heuristic `kind` from false
\* to true and leave the other three conditions as they are.
Variants(s, kind) ==
    {r \in Rewrites(s, kind) :
        /\ ~Conds(s)[kind]
        /\ Conds(r)[kind]
        /\ \A other \in Kinds \ {kind} : Conds(r)[other] = Conds(s)[other]}

AppendFlipSite == IsNone(flip) /\ AppendSite(FlipSites)

\* The first batch is classified before the second one is prepared.
ClassifyBase == IsNone(flip) /\ ClassifySites

\* A second input is prepared: the loaded batch with one record rewritten.
FlipOne ==
    /\ passes = 1
    /\ IsNone(flip)
    /\ \E i \in 1..Len(input), kind \in Kinds :
        \E r \in Variants(input[i], kind) :
            /\ twin' = [input EXCEPT ![i] = r]
            /\ flip' = Some([pos |-> i, kind |-> kind, site |-> r,
                             classified |-> FALSE])
    /\ UNCHANGED <<engineVars, webVars>>

\* classify_sites runs over the second batch.
ClassifyTwin ==
    /\ ~IsNone(flip)
    /\ ~Get(flip).classified
    /\ twin' = classify_sites(twin)
    /\ flip' = Some([Get(flip) EXCEPT !.classified = TRUE])
    /\ UNCHANGED <<engineVars, webVars>>

NextFlip ==
    \/ AppendFlipSite
    \/ ClassifyBase
    \/ FlipOne
    \/ ClassifyTwin

SpecFlip == Init /\ [][NextFlip]_vars

\* The three loops of classify_sites, one at a time.
FirstLoop(ss) == [i \in 1..Len(ss) |-> Prepare(ss[i])]

SecondLoop(ss) == [i \in 1..Len(ss) |-> Heuristics(ss[i])]

ThirdLoop(ss) ==
    LET targets == DenseTargets(ss)
    IN [i \in 1..Len(ss) |->
            IF i \in targets THEN DenseCluster(ss[i]) ELSE ss[i]]

\* What a load can return: nothing (no file, no valid row), one record
\* without identity, or four records of one grid cell whose first has a
\* blank operator label and a low TAC.
WebBatches ==
    {<<>>,
     <<CellSite(40758, -73986, None, None, None, None, None, None,
                Some(-80), None, Some(<<>>))>>,
     <<CellSite(40758, -73986, Some(<<>>), Some(310), Some(410), None,
                Some(0), Some(100), Some(-70), None, Some(<<>>)),
       CellSite(40758, -73986, Some(ATT), Some(310), Some(410), None,
                Some(100), Some(100), Some(-80), None, Some(<<>>)),
       CellSite(40758, -73986, Some(ATT), Some(310), Some(410), None,
                Some(100), Some(100), Some(-80), None, Some(<<>>)),
       CellSite(40758, -73986, Some(ATT), Some(310), Some(410), None,
                Some(100), Some(100), Some(-80), None, Some(<<>>))>>}

\* start_web_server calls refresh_data once before app.run; the handlers
\* exist only after that call has returned.
Serving == calls # <<>> /\ calls[1].pc = "done"

\* The list a reference to ALL_SITES denotes.
Deref(ref) == IF ref = 0 THEN <<>> ELSE calls[ref].new_sites

\* refresh_data is entered (at start-up, or by POST /refresh on its own
\* thread): the device probe result is stored and new_sites = [].
StartRefresh ==
    /\ Len(calls) < MaxRefresh
    /\ calls = <<>> \/ Serving
    /\ calls' = Append(calls, [pc |-> "load", new_sites |-> <<>>,
                               loaded |-> <<>>])
    /\ \E info \in {<<>>, <<"ProductType">>} : IPHONE_INFO' = info
    /\ UNCHANGED <<engineVars, flipVars, ALL_SITES, LAST_REFRESH, reader,
                   response>>

\* LoadSites that stores the list in ALL_SITES right after loading it.
LoadSitesPublishing(k) ==
    /\ calls[k].pc = "load"
    /\ \E b \in WebBatches :
        /\ calls' = [calls EXCEPT ![k] =
                [pc |-> IF b = <<>> THEN "done" ELSE "prepare",
                 new_sites |-> b, loaded |-> b]]
        /\ ALL_SITES' = IF b = <<>> THEN ALL_SITES ELSE k
    /\ UNCHANGED <<engineVars, flipVars, LAST_REFRESH, IPHONE_INFO,
                   reader, response>>

\* new_sites = load_cells_from_csv(path) / load_cells_from_json(path) /
\* demo_sites(lat, lon); an empty result ends the call.
LoadSites(k) ==
    /\ calls[k].pc = "load"
    /\ \E b \in WebBatches :
        calls' = [calls EXCEPT ![k] =
                [pc |-> IF b = <<>> THEN "done" ELSE "prepare",
                 new_sites |-> b, loaded |-> b]]
    /\ UNCHANGED <<engineVars, flipVars, ALL_SITES, LAST_REFRESH,
                   IPHONE_INFO, reader, response>>

\* classify_sites(new_sites), first loop.
RefreshPrepare(k) ==
    /\ calls[k].pc = "prepare"
    /\ calls' = [calls EXCEPT ![k].pc = "heuristics",
                              ![k].new_sites = FirstLoop(@)]
    /\ UNCHANGED <<engineVars, flipVars, ALL_SITES, LAST_REFRESH,
                   IPHONE_INFO, reader, response>>

\* classify_sites(new_sites), second loop.
RefreshHeuristics(k) ==
    /\ calls[k].pc = "heuristics"
    /\ calls' = [calls EXCEPT ![k].pc = "density",
                              ![k].new_sites = SecondLoop(@)]
    /\ UNCHANGED <<engineVars, flipVars, ALL_SITES, LAST_REFRESH,
                   IPHONE_INFO, reader, response>>

\* classify_sites(new_sites), third loop.
RefreshDensity(k) ==
    /\ calls[k].pc = "density"
    /\ calls' = [calls EXCEPT ![k].pc = "publish",
                              ![k].new_sites = ThirdLoop(@)]
    /\ UNCHANGED <<engineVars, flipVars, ALL_SITES, LAST_REFRESH,
                   IPHONE_INFO, reader, response>>

\* ALL_SITES = new_sites
Publish(k) ==
    /\ calls[k].pc = "publish"
    /\ ALL_SITES' = k
    /\ calls' = [calls EXCEPT ![k].pc = "stamp"]
    /\ UNCHANGED <<engineVars, flipVars, LAST_REFRESH, IPHONE_INFO,
                   reader, response>>

\* LAST_REFRESH = datetime.utcnow().strftime(...)
Stamp(k) ==
    /\ calls[k].pc = "stamp"
    /\ LAST_REFRESH' = Some(k)
    /\ calls' = [calls EXCEPT ![k].pc = "done"]
    /\ UNCHANGED <<engineVars, flipVars, ALL_SITES, IPHONE_INFO, reader,
                   response>>

\* GET /data: the handler reads the global ALL_SITES ...
DataRef ==
    /\ Serving
    /\ reader.pc = "idle"
    /\ reader' = [pc |-> "ref", ref |-> ALL_SITES, sites |-> <<>>]
    /\ UNCHANGED <<engineVars, flipVars, calls, ALL_SITES, LAST_REFRESH,
                   IPHONE_INFO, response>>

\* ... serialises the list it got with sites_to_json ...
DataJson ==
    /\ reader.pc = "ref"
    /\ reader' = [reader EXCEPT !.pc = "json", !.sites = Deref(reader.ref)]
    /\ UNCHANGED <<engineVars, flipVars, calls, ALL_SITES, LAST_REFRESH,
                   IPHONE_INFO, response>>

\* ... and reads LAST_REFRESH to complete the response.
DataRespond ==
    /\ reader.pc = "json"
    /\ response' = Some([sites |-> reader.sites,
                         last_refresh |-> LAST_REFRESH])
    /\ reader' = [pc |-> "idle", ref |-> 0, sites |-> <<>>]
    /\ UNCHANGED <<engineVars, flipVars, calls, ALL_SITES, LAST_REFRESH,
                   IPHONE_INFO>>

NextWeb ==
    \/ StartRefresh
    \/ \E k \in 1..Len(calls) :
        \/ LoadSites(k)
        \/ RefreshPrepare(k)
        \/ RefreshHeuristics(k)
        \/ RefreshDensity(k)
        \/ Publish(k)
        \/ Stamp(k)
    \/ DataRef
    \/ DataJson
    \/ DataRespond

SpecWeb == Init /\ [][NextWeb]_vars

NextGrid ==
    \/ AppendSite(GridSites)
    \/ ClassifySites

SpecGrid == Init /\ [][NextGrid]_vars

----------------------------------------------------------------------------
\* Vocabulary of the properties.

Indices == 1..Len(sites)

\* The reasons list of a classified record.
Reasons(s) == Get(s.reasons)

HasReason(s, r) == ~IsNone(s.reasons) /\ Contains(Reasons(s), r)

\* How many times r occurs in the list xs.
Occurrences(xs, r) == Cardinality({k \in 1..Len(xs) : xs[k] = r})

\* The batch positions that share the grid cell of position i.
BucketOf(i) == {j \in Indices : BucketKey(sites[j]) = BucketKey(sites[i])}

\* The members of i's grid cell that carry the dense-cluster reason.
DenseIn(i) == {j \in BucketOf(i) : HasReason(sites[j], ReasonDense)}

----------------------------------------------------------------------------
\* C1: after any number of classify_sites passes over a batch of records
\* that entered in the default state, every record's reasons is a list
\* (never None) and its suspected_simulator flag is true exactly when that
\* list is non-empty.
C1_FlagIffReasons ==
    passes >= 1 =>
        \A i \in Indices :
            /\ ~IsNone(sites[i].reasons)
            /\ sites[i].suspected_simulator <=> (Reasons(sites[i]) # <<>>)

\* Two passes have run over a batch that holds a record which entered with
\* reasons None and stays unflagged with reasons [], next to a flagged one.
C1_Witness ==
    /\ passes >= 2
    /\ \E i, j \in Indices :
        /\ IsNone(input[i].reasons)
        /\ sites[i].reasons = Some(<<>>)
        /\ ~sites[i].suspected_simulator
        /\ sites[j].suspected_simulator
        /\ Reasons(sites[j]) # <<>>

\* C2: classify_sites is idempotent: once a batch of default-state records
\* has been classified, every further pass leaves each record's reasons and
\* flag as the first pass left them, and no reason occurs twice in a list.
C2_Idempotent ==
    passes >= 1 =>
        /\ sites = classify_sites(input)
        /\ \A i \in Indices : \A k \in 1..Len(Reasons(sites[i])) :
              Occurrences(Reasons(sites[i]), Reasons(sites[i])[k]) = 1

\* C3: after one pass, a grid cell holding 4 or more records has exactly 2
\* members carrying the dense-cluster reason and a cell holding fewer than
\* 4 has none.
C3_DensityCap ==
    passes = 1 =>
        \A i \in Indices :
            Cardinality(DenseIn(i)) =
                (IF Cardinality(BucketOf(i)) >= 4 THEN 2 ELSE 0)

\* One pass over a batch with a cell of 4 records, 2 of them marked, and a
\* cell of fewer than 4 records.
C3_Witness ==
    /\ passes = 1
    /\ \E i, j \in Indices :
        /\ Cardinality(BucketOf(i)) >= 4
        /\ Cardinality(DenseIn(i)) = 2
        /\ Cardinality(BucketOf(j)) < 4
        /\ DenseIn(j) = {}

\* rsrp a ranks strictly above rsrp b when absent RSRP is the weakest value.
RanksAbove(a, b) == ~IsNone(a) /\ (IsNone(b) \/ Get(a) > Get(b))

\* C4: in a cell of 4 or more records the dense-cluster reason goes to the
\* first 2 members by descending RSRP, an absent RSRP ranking below every
\* present one: no member left unmarked ranks strictly above a marked one.
C4_AbsentRanksLast ==
    passes = 1 =>
        \A i \in Indices : \A j \in BucketOf(i) :
            (/\ Cardinality(BucketOf(i)) >= 4
             /\ HasReason(sites[i], ReasonDense)
             /\ ~HasReason(sites[j], ReasonDense))
            => ~RanksAbove(sites[j].rsrp, sites[i].rsrp)

\* C5: in a cell of 4 or more records, of two members with equal RSRP (or
\* both without RSRP) the one earlier in the batch is marked first: the
\* later one carries the dense-cluster reason only if the earlier one does.
C5_TieBreak ==
    passes = 1 =>
        \A i \in Indices : \A j \in BucketOf(i) :
            (/\ Cardinality(BucketOf(i)) >= 4
             /\ i < j
             /\ sites[i].rsrp = sites[j].rsrp
             /\ HasReason(sites[j], ReasonDense))
            => HasReason(sites[i], ReasonDense)

\* A tie of absent values straddles the cut: of two members without RSRP
\* the earlier is marked and the later is not.
C5_Witness ==
    /\ passes = 1
    /\ \E i \in Indices : \E j \in BucketOf(i) :
        /\ Cardinality(BucketOf(i)) >= 4
        /\ i < j
        /\ IsNone(sites[i].rsrp)
        /\ sites[i].rsrp = sites[j].rsrp
        /\ HasReason(sites[i], ReasonDense)
        /\ ~HasReason(sites[j], ReasonDense)

----------------------------------------------------------------------------
\* Vocabulary of the per-record properties.

\* An operator label is absent when the field is None or blank (a CSV
\* import delivers an unknown operator as the empty string).
LabelAbsent(o) == IsNone(o) \/ Get(o) = <<>>

SameLetter(c, d) ==
    \/ c = d
    \/ \E k \in 1..Len(UpperChars) : {c, d} = {UpperChars[k], LowerChars[k]}

EqualIgnoringCase(a, b) ==
    /\ Len(a) = Len(b)
    /\ \A k \in 1..Len(a) : SameLetter(a[k], b[k])

\* The registry knows the (MCC, MNC) pair of s.
Registered(s) ==
    /\ ~IsNone(s.mcc)
    /\ ~IsNone(s.mnc)
    /\ <<Get(s.mcc), Get(s.mnc)>> \in DOMAIN US_OPERATOR_BY_MCC_MNC

RegisteredName(s) == US_OPERATOR_BY_MCC_MNC[<<Get(s.mcc), Get(s.mnc)>>]

IsMismatchReason(r) == Len(r) = Len(ReasonMismatch(0, 0, <<>>))

\* The operator label is present and matches the registry entry.
CleanIdentity(s) ==
    /\ Registered(s)
    /\ ~LabelAbsent(s.operator)
    /\ EqualIgnoringCase(Get(s.operator), RegisteredName(s))

AboveOne(o) == IsNone(o) \/ Get(o) > 1

CodesAboveOne(s) == AboveOne(s.tac) /\ AboveOne(s.lac) /\ AboveOne(s.cid)

\* operator, MCC and MNC absent, RSRP -80, nothing else set.
ScenarioA(s) ==
    /\ IsNone(s.operator) /\ IsNone(s.mcc) /\ IsNone(s.mnc)
    /\ s.rsrp = Some(-80) /\ IsNone(s.rssi)
    /\ IsNone(s.tac) /\ IsNone(s.lac) /\ IsNone(s.cid)

----------------------------------------------------------------------------
\* C6: after one pass a record carries the missing-identity reason (once,
\* and is flagged) exactly when its operator label is absent and MCC or MNC
\* is absent; the record of scenario A, classified alone, ends with that
\* reason and no other.
C6_MissingIdentity ==
    passes = 1 =>
        \A i \in Indices :
            LET want == /\ LabelAbsent(input[i].operator)
                        /\ (IsNone(input[i].mcc) \/ IsNone(input[i].mnc))
            IN /\ HasReason(sites[i], ReasonMissing) <=> want
               /\ want => /\ sites[i].suspected_simulator
                          /\ Occurrences(Reasons(sites[i]), ReasonMissing) = 1
               /\ (Len(sites) = 1 /\ ScenarioA(input[i]))
                    => Reasons(sites[i]) = <<ReasonMissing>>

\* The record of scenario A, classified alone.
C6_Witness ==
    /\ passes = 1
    /\ Len(sites) = 1
    /\ ScenarioA(input[1])
    /\ sites[1].suspected_simulator
    /\ Reasons(sites[1]) = <<ReasonMissing>>

\* C7: after one pass a record carries a mismatch reason, naming the
\* registry's operator, exactly when MCC and MNC are present, the registry
\* maps the pair, the input operator label is present and the two names
\* differ ignoring case; 'Verizon' on (310, 410) is flagged with a reason
\* naming 'AT&T', 'at&t' on (310, 410) gets no mismatch reason.
C7_Mismatch ==
    passes = 1 =>
        \A i \in Indices :
            LET s == input[i]
                want == /\ Registered(s)
                        /\ ~LabelAbsent(s.operator)
                        /\ ~EqualIgnoringCase(Get(s.operator), RegisteredName(s))
                found == {k \in 1..Len(Reasons(sites[i])) :
                            IsMismatchReason(Reasons(sites[i])[k])}
            IN /\ (found # {}) <=> want
               /\ \A k \in found :
                    Reasons(sites[i])[k] =
                        ReasonMismatch(Get(s.mcc), Get(s.mnc), RegisteredName(s))
               /\ (s.operator = Some(Verizon) /\ s.mcc = Some(310) /\ s.mnc = Some(410))
                    => /\ sites[i].suspected_simulator
                       /\ HasReason(sites[i], ReasonMismatch(310, 410, ATT))
               /\ (s.operator = Some(Att) /\ s.mcc = Some(310) /\ s.mnc = Some(410))
                    => found = {}

\* 'Verizon' on (310, 410), flagged with the reason naming 'AT&T'.
C7_Witness ==
    /\ passes = 1
    /\ \E i \in Indices :
        /\ input[i].operator = Some(Verizon)
        /\ input[i].mcc = Some(310)
        /\ input[i].mnc = Some(410)
        /\ sites[i].suspected_simulator
        /\ HasReason(sites[i], ReasonMismatch(310, 410, ATT))

\* C8: after one pass a record carries the strong-signal reason exactly when
\* RSRP is present and > -65 or RSSI is present and > -50; a record with
\* RSRP -40, a clean identity and codes above 1, classified alone, is
\* flagged with that reason and no other.
C8_StrongSignal ==
    passes = 1 =>
        \A i \in Indices :
            LET s == input[i]
                want == \/ ~IsNone(s.rsrp) /\ Get(s.rsrp) > -65
                        \/ ~IsNone(s.rssi) /\ Get(s.rssi) > -50
            IN /\ HasReason(sites[i], ReasonStrong) <=> want
               /\ (/\ Len(sites) = 1
                   /\ s.rsrp = Some(-40)
                   /\ CleanIdentity(s)
                   /\ CodesAboveOne(s))
                    => /\ sites[i].suspected_simulator
                       /\ Reasons(sites[i]) = <<ReasonStrong>>

\* RSRP -40 with a clean identity, classified alone.
C8_Witness ==
    /\ passes = 1
    /\ Len(sites) = 1
    /\ input[1].rsrp = Some(-40)
    /\ CleanIdentity(input[1])
    /\ CodesAboveOne(input[1])
    /\ sites[1].suspected_simulator
    /\ Reasons(sites[1]) = <<ReasonStrong>>

\* C9: after one pass a record carries the low-code reason exactly when TAC,
\* LAC or CID is present and <= 1; tac = 0 is flagged with it; a record with
\* tac = 2 whose other fields trigger nothing, classified alone, stays
\* unflagged with empty reasons.
C9_LowCodes ==
    passes = 1 =>
        \A i \in Indices :
            LET s == input[i]
                want == \/ ~IsNone(s.tac) /\ Get(s.tac) <= 1
                        \/ ~IsNone(s.lac) /\ Get(s.lac) <= 1
                        \/ ~IsNone(s.cid) /\ Get(s.cid) <= 1
            IN /\ HasReason(sites[i], ReasonLow) <=> want
               /\ s.tac = Some(0)
                    => /\ sites[i].suspected_simulator
                       /\ HasReason(sites[i], ReasonLow)
               /\ (/\ Len(sites) = 1
                   /\ s.tac = Some(2)
                   /\ AboveOne(s.lac) /\ AboveOne(s.cid)
                   /\ CleanIdentity(s)
                   /\ IsNone(s.rsrp) \/ Get(s.rsrp) <= -65
                   /\ IsNone(s.rssi) \/ Get(s.rssi) <= -50)
                    => /\ ~sites[i].suspected_simulator
                       /\ Reasons(sites[i]) = <<>>

\* tac = 1, the boundary, with LAC and CID absent: flagged with the reason.
C9_Witness ==
    /\ passes = 1
    /\ \E i \in Indices :
        /\ input[i].tac = Some(1)
        /\ IsNone(input[i].lac)
        /\ IsNone(input[i].cid)
        /\ sites[i].suspected_simulator
        /\ HasReason(sites[i], ReasonLow)

\* The place of a reason in the fixed order; 0 for anything else.
Rank(r) ==
    CASE r = ReasonMissing -> 1
      [] IsMismatchReason(r) -> 2
      [] r = ReasonStrong -> 3
      [] r = ReasonLow -> 4
      [] r = ReasonDense -> 5
      [] OTHER -> 0

\* C10: after one pass every reasons list is a subsequence of [missing
\* identity, mismatch, strong signal, low codes, dense cluster]; the
\* dense-cluster reason, when present, is therefore the last element.
C10_ReasonOrder ==
    passes = 1 =>
        \A i \in Indices : \A k \in 1..Len(Reasons(sites[i])) :
            /\ Rank(Reasons(sites[i])[k]) > 0
            /\ k > 1 => Rank(Reasons(sites[i])[k - 1]) < Rank(Reasons(sites[i])[k])

\* A record that collected four reasons, the dense-cluster one last.
C10_Witness ==
    /\ passes = 1
    /\ \E i \in Indices :
        Reasons(sites[i]) = <<ReasonMissing, ReasonStrong, ReasonLow, ReasonDense>>

----------------------------------------------------------------------------
\* What normalize_operator is to return for the record s.
Normalized(s) ==
    IF LabelAbsent(s.operator) /\ Registered(s)
    THEN [s EXCEPT !.operator = Some(RegisteredName(s))]
    ELSE s

\* C12: normalize_operator sets the operator label to the registry name
\* when the label is absent, MCC and MNC are present and the pair is in the
\* registry; in every other case the record stays exactly as it was; no
\* field other than operator is ever modified.
C12_NormalizeOperator ==
    \A i \in Indices :
        sites[i] = input[i] \/ sites[i] = Normalized(input[i])

----------------------------------------------------------------------------
\* q is num / den truncated toward zero.
IsTruncated(q, num, den) ==
    IF num >= 0
    THEN q >= 0 /\ q * den <= num /\ num < (q + 1) * den
    ELSE q <= 0 /\ (q - 1) * den < num /\ num <= q * den

CellRange == -2..2

\* trunc(lat * 200) and trunc(lon * 200) of a and b are pairwise equal
\* (coordinates are thousandths of a degree).
SameCell(a, b) ==
    /\ \E x \in CellRange :
        /\ IsTruncated(x, a.lat * 200, 1000)
        /\ IsTruncated(x, b.lat * 200, 1000)
    /\ \E y \in CellRange :
        /\ IsTruncated(y, a.lon * 200, 1000)
        /\ IsTruncated(y, b.lon * 200, 1000)

CellMates(i) == {j \in Indices : SameCell(sites[i], sites[j])}

\* C13: two records are counted in the same density bucket exactly when
\* trunc(lat * 200) and trunc(lon * 200) agree, truncation being toward
\* zero on both sides of zero, whatever the other fields hold: after one
\* pass, the records sharing those truncated coordinates with a record
\* carry 2 dense-cluster reasons if they are 4 or more, and none otherwise.
C13_Bucketing ==
    passes = 1 =>
        \A i \in Indices :
            Cardinality({j \in CellMates(i) : HasReason(sites[j], ReasonDense)})
                = (IF Cardinality(CellMates(i)) >= 4 THEN 2 ELSE 0)

\* A cell of 4 or more that spans both signs of latitude and of longitude
\* and holds different RSRP values, next to a record with negative
\* latitude that falls in another cell.
C13_Witness ==
    /\ passes = 1
    /\ \E i, j, k \in Indices :
        /\ sites[i].lat < 0 /\ sites[i].lon < 0
        /\ sites[j].lat > 0 /\ sites[j].lon > 0
        /\ sites[i].rsrp # sites[j].rsrp
        /\ j \in CellMates(i)
        /\ Cardinality(CellMates(i)) >= 4
        /\ Cardinality({m \in CellMates(i) : HasReason(sites[m], ReasonDense)}) = 2
        /\ sites[k].lat < 0
        /\ k \notin CellMates(i)
        /\ ~HasReason(sites[k], ReasonDense)

----------------------------------------------------------------------------
\* Vocabulary of the two-batch comparison.

\* Both batches have been classified once.
BothClassified == passes = 1 /\ ~IsNone(flip) /\ Get(flip).classified

\* The reason the flipped heuristic gives the changed record.
FlipReason ==
    LET f == Get(flip)
    IN CASE f.kind = "missing" -> ReasonMissing
         [] f.kind = "mismatch" ->
                ReasonMismatch(Get(f.site.mcc), Get(f.site.mnc), RegisteredName(f.site))
         [] f.kind = "strong" -> ReasonStrong
         [] f.kind = "low" -> ReasonLow

ReasonSet(s) == {Reasons(s)[k] : k \in 1..Len(Reasons(s))}

\* C11 as stated: the second run keeps every reason of the first run on
\* every record, un-flags no record, and adds nothing but the flipped
\* heuristic's reason on the changed record.
C11_Monotone ==
    BothClassified =>
        \A j \in Indices :
            /\ ReasonSet(sites[j]) \subseteq ReasonSet(twin[j])
            /\ sites[j].suspected_simulator => twin[j].suspected_simulator
            /\ ReasonSet(twin[j]) \ ReasonSet(sites[j]) \subseteq
                    (IF j = Get(flip).pos THEN {FlipReason} ELSE {})

\* C11, amended: the second run keeps every reason of the first run other
\* than the dense-cluster reason, the changed record gains the flipped
\* heuristic's reason, and no other reason than the dense-cluster one is
\* added anywhere; when the flip leaves the changed record's RSRP as it
\* was, the dense-cluster reasons are the same in both runs as well and no
\* flagged record is un-flagged.
C11_MonotoneUpToDensity ==
    BothClassified =>
        LET p == Get(flip).pos
        IN /\ HasReason(twin[p], FlipReason)
           /\ \A j \in Indices :
                /\ ReasonSet(sites[j]) \ {ReasonDense} \subseteq ReasonSet(twin[j])
                /\ (ReasonSet(twin[j]) \ ReasonSet(sites[j])) \ {ReasonDense}
                        \subseteq (IF j = p THEN {FlipReason} ELSE {})
                /\ Get(flip).site.rsrp = input[p].rsrp =>
                        /\ HasReason(sites[j], ReasonDense)
                                <=> HasReason(twin[j], ReasonDense)
                        /\ sites[j].suspected_simulator
                                => twin[j].suspected_simulator

\* A strong-signal flip through RSSI alone, on a record of a dense cell
\* that carries the dense-cluster reason in both runs and gains the
\* strong-signal reason in the second.
C11_Witness ==
    /\ BothClassified
    /\ Get(flip).kind = "strong"
    /\ Get(flip).site.rsrp = input[Get(flip).pos].rsrp
    /\ HasReason(sites[Get(flip).pos], ReasonDense)
    /\ HasReason(twin[Get(flip).pos], ReasonDense)
    /\ ~HasReason(sites[Get(flip).pos], ReasonStrong)
    /\ HasReason(twin[Get(flip).pos], ReasonStrong)

\* ---- Web refresh publication ----

\* The invocations of refresh_data so far.
Calls == 1..Len(calls)

\* One pass of classify_sites over each batch a load can return.
OnePass == [b \in WebBatches |-> classify_sites(b)]

\* The batch is what one pass of classify_sites makes of a non-empty load
\* of some invocation.
OncePassed(batch) ==
    \E k \in Calls :
        /\ calls[k].loaded # <<>>
        /\ batch = OnePass[calls[k].loaded]

\* ALL_SITES is the initial empty list, or the list of an invocation that
\* loaded records and has finished its one pass of classify_sites over them.
PublishedWhole ==
    ALL_SITES # 0 =>
        /\ ALL_SITES \in Calls
        /\ calls[ALL_SITES].pc \in {"stamp", "done"}
        /\ calls[ALL_SITES].loaded # <<>>
        /\ calls[ALL_SITES].new_sites = OnePass[calls[ALL_SITES].loaded]

\* What /data serialised, in flight or in its latest response, is the
\* initial empty list or a once-classified batch.
ReaderSeesWhole ==
    /\ reader.pc = "json" =>
            reader.sites = <<>> \/ OncePassed(reader.sites)
    /\ ~IsNone(response) =>
            Get(response).sites = <<>> \/ OncePassed(Get(response).sites)

\* A step that changes ALL_SITES replaces it with the list of an
\* invocation that had not published before, holds records and has
\* completed its pass.
ReplacedByFreshBatch ==
    ALL_SITES' # ALL_SITES =>
        /\ ALL_SITES' \in Calls
        /\ calls[ALL_SITES'].pc = "publish"
        /\ calls[ALL_SITES'].loaded # <<>>
        /\ calls'[ALL_SITES'].new_sites = OnePass[calls[ALL_SITES'].loaded]

\* The list of an invocation is not written again once it is published.
PublishedKept ==
    \A k \in Calls :
        calls[k].pc \in {"stamp", "done"}
            => calls'[k].new_sites = calls[k].new_sites

\* A step of an invocation that holds no records leaves both globals alone.
EmptyLoadKeeps ==
    \A k \in 1..Len(calls') :
        (/\ k \in Calls => calls'[k] # calls[k]
         /\ calls'[k].new_sites = <<>>)
            => UNCHANGED <<ALL_SITES, LAST_REFRESH>>

\* C14: across every interleaving of refresh_data calls and /data reads,
\* ALL_SITES changes only by being replaced with a non-empty, freshly
\* loaded batch over which classify_sites has completed exactly one pass;
\* a /data reader never sees an unclassified, partially classified or
\* twice-classified batch; and a refresh whose load yields no records
\* leaves ALL_SITES and LAST_REFRESH unchanged.
C14_RefreshPublication ==
    /\ [](PublishedWhole /\ ReaderSeesWhole)
    /\ [][ReplacedByFreshBatch /\ PublishedKept /\ EmptyLoadKeeps]_vars

\* A /data response carries a classified batch while one refresh has ended
\* on an empty load without touching the published batch and another is
\* in the middle of classifying its own.
C14_Witness ==
    /\ ~IsNone(response)
    /\ Get(response).sites # <<>>
    /\ \E k \in Calls :
        /\ calls[k].pc = "done"
        /\ calls[k].loaded = <<>>
        /\ ALL_SITES \notin {0, k}
        /\ LAST_REFRESH \notin {None, Some(k)}
    /\ \E j \in Calls : calls[j].pc \in {"heuristics", "density"}

====
